---------------------------- MODULE Spec2Model ----------------------------
(***************************************************************************)
(* Grid puzzle-platformer driven by a player-written command script.       *)
(* The module models the movement-validity rule (Level::check_valid), the  *)
(* script interpreter (action_interpreter), the script editor, the tick    *)
(* clock, checkpoints / respawn and the oscillating obstacles.             *)
(*                                                                         *)
(* Cells are pairs <<x, y>> (x right-positive, y up-positive).  Script     *)
(* indices are 0-based as in the source; the i-th command of a script is   *)
(* sequence[i + 1].                                                        *)
(***************************************************************************)
EXTENDS Integers, Sequences, FiniteSets, TLC

(***************************************************************************)
(* Bounds of the model.                                                    *)
(***************************************************************************)
\* largest number of wall cells of a level drawn for a validity query
MaxWalls == 2
\* longest script handed to the interpreter in the interpreter specification
MaxLen == 4
\* longest editor buffer that still takes a command key
MaxEntered == 2

(***************************************************************************)
(* ScriptCommand and grid vectors.                                         *)
(***************************************************************************)
None == "None"

MoveCommands == {"Walk", "Climb", "Drop", "Idle", "Turn", "Jump"}

ScriptCommand == MoveCommands \cup {"OpenBracket", "CloseBracket"}

UP == <<0, 1>>

DOWN == <<0, -1>>

LEFT == <<-1, 0>>

RIGHT == <<1, 0>>

ZERO == <<0, 0>>

\* IVec2 addition
Add(a, b) == <<a[1] + b[1], a[2] + b[2]>>

\* mutant of Mirror: the facing is multiplied into both components
MirrorBoth(square, x_dir) == <<square[1] * x_dir, square[2] * x_dir>>

\* square * IVec2::new(x_dir, 1)
Mirror(square, x_dir) == <<square[1] * x_dir, square[2]>>

\* mutant of squares: the stationary primitives scan the cell ahead
squaresScanAhead(command) ==
    CASE command = "Walk" -> <<RIGHT>>
      [] command = "Climb" -> <<UP, Add(UP, RIGHT)>>
      [] command = "Drop" -> <<RIGHT, Add(DOWN, RIGHT)>>
      [] command = "Jump" -> <<RIGHT, UP, Add(RIGHT, UP), Add(Add(RIGHT, UP), RIGHT)>>
      [] OTHER -> <<RIGHT>>

\* the cells a primitive touches, in travel order (facing +1)
squares(command) ==
    CASE command = "Idle" -> <<>>
      [] command = "Walk" -> <<RIGHT>>
      [] command = "Climb" -> <<UP, Add(UP, RIGHT)>>
      [] command = "Drop" -> <<RIGHT, Add(DOWN, RIGHT)>>
      [] command = "Jump" -> <<RIGHT, UP, Add(RIGHT, UP), Add(Add(RIGHT, UP), RIGHT)>>
      [] command = "Turn" -> <<>>

\* AnimationResource::final_offset: the last touched cell, or zero, mirrored
final_offset(command, x_dir) ==
    LET sq == squares(command)
    IN  Mirror(IF Len(sq) = 0 THEN ZERO ELSE sq[Len(sq)], x_dir)

\* mutant of is_solid: every cell at or below height 0 is ground
is_solidBelowFloor(walls, pos) == pos \in walls \/ pos[2] <= 0

\* Level::is_solid
is_solid(walls, pos) == pos \in walls

\* mutant of check_valid: the touched cells are not checked
check_validGroundOnly(walls, pos, command, x_dir) ==
    is_solid(walls, Add(Add(pos, final_offset(command, x_dir)), DOWN))

\* mutant of check_valid: the landing cell's support is not checked
check_validNoGround(walls, pos, command, x_dir) ==
    \A i \in 1..Len(squares(command)) :
        ~is_solid(walls, Add(pos, Mirror(squares(command)[i], x_dir)))

\* Level::check_valid: TRUE when Some(animation) is returned
check_valid(walls, pos, command, x_dir) ==
    /\ \A i \in 1..Len(squares(command)) :
           ~is_solid(walls, Add(pos, Mirror(squares(command)[i], x_dir)))
    /\ is_solid(walls, Add(Add(pos, final_offset(command, x_dir)), DOWN))


(***************************************************************************)
(* The script interpreter (player.rs, action_interpreter).                 *)
(***************************************************************************)
RECURSIVE open_scan(_, _, _, _)
\* the body of find_matching_open_bracket's loop, for i in 1..=cursor
open_scan(sequence, cursor, i, count) ==
    IF i > cursor THEN 0
    ELSE LET cmd == sequence[(cursor - i) + 1]
         IN  IF cmd = "CloseBracket" THEN open_scan(sequence, cursor, i + 1, count + 1)
             ELSE IF cmd = "OpenBracket" /\ count = 0 THEN cursor - i
             ELSE IF cmd = "OpenBracket" THEN open_scan(sequence, cursor, i + 1, count - 1)
             ELSE open_scan(sequence, cursor, i + 1, count)

\* mutant of find_matching_open_bracket: the nearest OpenBracket, nesting ignored
find_nearest_open_bracket(sequence, cursor) ==
    IF \E j \in 0..(cursor - 1) : sequence[j + 1] = "OpenBracket"
    THEN CHOOSE j \in 0..(cursor - 1) :
             /\ sequence[j + 1] = "OpenBracket"
             /\ \A k \in (j + 1)..(cursor - 1) : sequence[k + 1] # "OpenBracket"
    ELSE 0

\* closure find_matching_open_bracket
find_matching_open_bracket(sequence, cursor) == open_scan(sequence, cursor, 1, 0)

RECURSIVE close_scan(_, _, _)
\* the body of find_matching_close_bracket's loop, for i in cursor..len
close_scan(sequence, i, count) ==
    IF i >= Len(sequence) THEN 0
    ELSE LET cmd == sequence[i + 1]
         IN  IF cmd = "OpenBracket" THEN close_scan(sequence, i + 1, count + 1)
             ELSE IF cmd = "CloseBracket" /\ count = 0 THEN (i + 1) % Len(sequence)
             ELSE IF cmd = "CloseBracket" THEN close_scan(sequence, i + 1, count - 1)
             ELSE close_scan(sequence, i + 1, count)

\* mutant of find_matching_close_bracket: without a CloseBracket ahead the
\* cursor moves to the next slot
find_close_or_next(sequence, cursor) ==
    IF \E j \in cursor..(Len(sequence) - 1) : sequence[j + 1] = "CloseBracket"
    THEN close_scan(sequence, cursor, 0)
    ELSE (cursor + 1) % Len(sequence)

\* mutant of find_matching_close_bracket: the cursor stays on the failed slot
find_no_close_bracket(sequence, cursor) == cursor

\* closure find_matching_close_bracket
find_matching_close_bracket(sequence, cursor) == close_scan(sequence, cursor, 0)

\* mutant of LoopBound: one iteration too many
LoopBoundPlusOne(sequence) == Len(sequence) + 1

\* the iteration limit of the interpreter's loop: for _ in 0..sequence.len()
LoopBound(sequence) == Len(sequence)

\* mutant of commit: the cursor is left on the committed instruction
commitKeepCursor(sequence, cursor, x_dir, trace) ==
    [cursor |-> cursor,
     x_dir |-> IF sequence[cursor + 1] = "Turn" THEN -x_dir ELSE x_dir,
     index |-> cursor, anim |-> sequence[cursor + 1], trace |-> trace]

\* mutant of commit: the cursor is advanced without wrapping
commitNoWrap(sequence, cursor, x_dir, trace) ==
    [cursor |-> cursor + 1,
     x_dir |-> IF sequence[cursor + 1] = "Turn" THEN -x_dir ELSE x_dir,
     index |-> cursor, anim |-> sequence[cursor + 1], trace |-> trace]

\* the Some(anim) arm: advance the cursor, flip the facing on Turn, return
commit(sequence, cursor, x_dir, trace) ==
    [cursor |-> (cursor + 1) % Len(sequence),
     x_dir |-> IF sequence[cursor + 1] = "Turn" THEN -x_dir ELSE x_dir,
     index |-> cursor, anim |-> sequence[cursor + 1], trace |-> trace]

\* mutant of skip_scope: a failed attempt turns the avatar around
skip_scopeTurnsAround(sequence, cursor, x_dir, trace) ==
    [cursor |-> find_matching_close_bracket(sequence, cursor),
     x_dir |-> -x_dir, index |-> cursor, anim |-> None, trace |-> trace]

\* the None arm: skip to the end of the scope, return no animation
skip_scope(sequence, cursor, x_dir, trace) ==
    [cursor |-> find_matching_close_bracket(sequence, cursor),
     x_dir |-> x_dir, index |-> cursor, anim |-> None, trace |-> trace]

RECURSIVE interp_loop(_, _, _, _, _, _, _)
\* the interpreter's for loop with n iterations left; trace lists the slots
\* visited so far
interp_loop(sequence, cursor, x_dir, pos, walls, n, trace) ==
    IF n = 0
    THEN [cursor |-> cursor, x_dir |-> x_dir, index |-> cursor, anim |-> None,
          trace |-> trace]
    ELSE LET cmd == sequence[cursor + 1]
             seen == Append(trace, cursor)
         IN  IF cmd = "OpenBracket"
             THEN interp_loop(sequence, (cursor + 1) % Len(sequence), x_dir, pos,
                              walls, n - 1, seen)
             ELSE IF cmd = "CloseBracket"
             THEN interp_loop(sequence,
                              (find_matching_open_bracket(sequence, cursor) + 1)
                                  % Len(sequence),
                              x_dir, pos, walls, n - 1, seen)
             ELSE IF check_valid(walls, pos, cmd, x_dir)
             THEN commit(sequence, cursor, x_dir, seen)
             ELSE skip_scope(sequence, cursor, x_dir, seen)

\* action_interpreter: the new cursor and facing, the returned index and
\* animation (None, or the command whose animation is returned)
action_interpreter(sequence, cursor, x_dir, pos, walls) ==
    IF Len(sequence) = 0
    THEN [cursor |-> cursor, x_dir |-> x_dir, index |-> 0, anim |-> None,
          trace |-> <<>>]
    ELSE interp_loop(sequence, cursor, x_dir, pos, walls, LoopBound(sequence), <<>>)

\* calculate_bracket_balance
RECURSIVE calculate_bracket_balance(_)
calculate_bracket_balance(script) ==
    IF Len(script) = 0 THEN 0
    ELSE calculate_bracket_balance(SubSeq(script, 1, Len(script) - 1))
         + (CASE script[Len(script)] = "OpenBracket" -> 1
              [] script[Len(script)] = "CloseBracket" -> -1
              [] OTHER -> 0)

(***************************************************************************)
(* State.                                                                  *)
(***************************************************************************)
VARIABLES
    \* Level (level.rs): the loaded level and its progress record
    lvl, last_checkpoint, unlocked, command_count,
    \* the player's GridTransform and NextGridTransform
    pos, next_pos,
    \* PlayerState (player.rs)
    x_dir, animation, sequence, cursor, autoplay,
    \* EditorState (editor.rs): enabled, entered, cursor
    enabled, entered, editor_cursor,
    \* AnimationTick: whether the timer reports finished()
    finished,
    \* the obstacles: records [grid, next_grid, going_up]
    obstacles,
    \* TickStart and Reset events not yet read by the obstacles' system
    tick_start, reset,
    \* the systems that already ran in the current frame
    ran,
    \* a validity query, for the specification of check_valid alone
    vq,
    \* an interpreter run, for the specification of action_interpreter alone
    iq,
    \* history: the obstacles reversed on the last tick-start read since the
    \* last reset
    flipped

levelVars == <<lvl, last_checkpoint, unlocked, command_count>>

playerVars == <<pos, next_pos, x_dir, animation, sequence, cursor, autoplay>>

editorVars == <<enabled, entered, editor_cursor>>

gameVars == <<levelVars, playerVars, editorVars, finished, obstacles, tick_start,
              reset, ran, flipped>>

vars == <<gameVars, vq, iq>>

(***************************************************************************)
(* Level data, as load_level hands it to the core.                         *)
(***************************************************************************)
\* the levels of the game specification
Levels == {1, 2}

\* Level.walls: a floor (0..4, 0) with a block on its right end
LevelWalls(l) == {<<x, 0>> : x \in 0..4} \cup {<<4, 1>>}

\* the PlayerStart cell
LevelSpawn(l) == <<0, 1>>

\* the Checkpoint cells
Checkpoints(l) == IF l = 1 THEN {<<1, 1>>} ELSE {<<1, 1>>, <<2, 1>>}

\* Level.unlocks: checkpoint cell -> <<unlocked command or None, command count>>
LevelUnlocks(l, cell) ==
    CASE l = 1 -> <<"OpenBracket", 2>>
      [] l = 2 /\ cell = <<1, 1>> -> <<"Turn", 2>>
      [] OTHER -> <<None, 1>>

\* the SpawnObstacle records of the level's hazards
ObstacleSpawns(l) ==
    IF l = 1 THEN <<[pos |-> <<3, 1>>, going_up |-> TRUE]>>
    ELSE <<[pos |-> <<3, 2>>, going_up |-> FALSE]>>

\* Level::is_checkpoint
is_checkpoint(l, cell) == cell \in Checkpoints(l)

\* Vec::contains on Level.unlocked
Contains(list, command) == \E i \in 1..Len(list) : list[i] = command

(***************************************************************************)
(* The frame.  AppSet orders update_tick_timer (TickTimers) before         *)
(* update_animation (RecordInput) before the obstacles' movement (Update); *)
(* respawn is added without ordering, so the scheduler may run it anywhere *)
(* in the frame.  Each of these four runs once per frame.  edit_script and *)
(* submit_script are unordered too and do nothing in a frame without a key *)
(* press: they are modelled by their runs with a key pressed, which may    *)
(* fall anywhere between the other systems' runs.                          *)
(***************************************************************************)
Systems == {"update_tick_timer", "update_animation", "movement", "respawn"}

\* the systems that configure_sets(...).chain() orders before a system
RunsAfter(sys) ==
    CASE sys = "update_animation" -> {"update_tick_timer"}
      [] sys = "movement" -> {"update_tick_timer", "update_animation"}
      [] OTHER -> {}

\* the system has not run in this frame and the systems ordered before it have
Ready(sys) == sys \notin ran /\ RunsAfter(sys) \subseteq ran

\* the system has run; the frame ends when all of them have
Ran(sys) == ran' = IF ran \cup {sys} = Systems THEN {} ELSE ran \cup {sys}

(***************************************************************************)
(* update_tick_timer (level.rs).                                           *)
(***************************************************************************)
\* the timer finished in an earlier frame (or is still running): nothing folds
TickNoFinish ==
    /\ Ready("update_tick_timer")
    /\ Ran("update_tick_timer")
    /\ UNCHANGED <<levelVars, playerVars, editorVars, finished, obstacles,
                   tick_start, reset, vq, iq, flipped>>

\* mutant of FoldTo: the resting cell overshoots the committed cell
FoldTwice(old, new) == Add(new, <<new[1] - old[1], new[2] - old[2]>>)

\* old.0 = new.0
FoldTo(old, new) == new

\* tick.0.just_finished(): every GridTransform takes its NextGridTransform
TickFinish ==
    /\ Ready("update_tick_timer")
    /\ ~finished
    /\ finished' = TRUE
    /\ pos' = FoldTo(pos, next_pos)
    /\ obstacles' = [i \in DOMAIN obstacles |->
                        [obstacles[i] EXCEPT
                            !.grid = FoldTo(obstacles[i].grid, obstacles[i].next_grid)]]
    /\ Ran("update_tick_timer")
    /\ UNCHANGED <<levelVars, next_pos, x_dir, animation, sequence, cursor, autoplay,
                   editorVars, tick_start, reset, vq, iq, flipped>>

(***************************************************************************)
(* respawn (player.rs).                                                    *)
(***************************************************************************)
\* mutant of Collided: the cells the avatar and the obstacles move to count too
CollidedInFlight ==
    \E i \in DOMAIN obstacles :
        \/ obstacles[i].grid = pos
        \/ obstacles[i].grid = next_pos
        \/ obstacles[i].next_grid = pos
        \/ obstacles[i].next_grid = next_pos

\* collided |= o_pos.0 == pos.0
Collided == \E i \in DOMAIN obstacles : obstacles[i].grid = pos

\* level.is_checkpoint(pos.0) && level.last_checkpoint != pos.0
NewCheckpoint == is_checkpoint(lvl, pos) /\ last_checkpoint # pos

\* mutant of MergeUnlock: the command is pushed without looking for it
MergeUnlockAgain(list, new_unlock) ==
    IF new_unlock # None THEN Append(list, new_unlock) ELSE list

\* the unlocked list after the checkpoint's command is merged in
MergeUnlock(list, new_unlock) ==
    IF new_unlock # None /\ ~Contains(list, new_unlock)
    THEN Append(list, new_unlock)
    ELSE list

\* mutant of MaxCount: the checkpoint's count replaces the budget
MaxCountTakeNew(a, b) == b

\* level.command_count.max(command_count)
MaxCount(a, b) == IF a >= b THEN a ELSE b

\* mutant of RespawnFacing: the facing is kept
RespawnKeepFacing(dir) == dir

\* state.x_dir = 1
RespawnFacing(dir) == 1

\* the body of `if input.just_pressed(KeyCode::KeyR) || collided`
ResetPlayer(checkpoint) ==
    /\ pos' = checkpoint
    /\ next_pos' = checkpoint
    /\ x_dir' = RespawnFacing(x_dir)
    /\ cursor' = 0
    /\ animation' = None
    /\ enabled' = TRUE
    /\ reset' = TRUE

\* neither a hazard, nor a new checkpoint, nor the R key
RespawnNone ==
    /\ Ready("respawn")
    /\ ~Collided /\ ~NewCheckpoint
    /\ Ran("respawn")
    /\ UNCHANGED <<levelVars, playerVars, editorVars, finished, obstacles,
                   tick_start, reset, vq, iq, flipped>>

\* the resting cell is a checkpoint other than last_checkpoint
RespawnCheckpoint ==
    /\ Ready("respawn")
    /\ NewCheckpoint
    /\ last_checkpoint' = pos
    /\ unlocked' = MergeUnlock(unlocked, LevelUnlocks(lvl, pos)[1])
    /\ command_count' = MaxCount(command_count, LevelUnlocks(lvl, pos)[2])
    /\ ResetPlayer(pos)
    /\ Ran("respawn")
    /\ UNCHANGED <<lvl, sequence, autoplay, entered, editor_cursor, finished,
                   obstacles, tick_start, vq, iq, flipped>>

\* mutant of RespawnReset: the reset also forgets the checkpoint's progress
RespawnResetForgets ==
    /\ Ready("respawn")
    /\ ~NewCheckpoint
    /\ \E r \in BOOLEAN :
          /\ r \/ Collided
    /\ last_checkpoint' = LevelSpawn(lvl)
    /\ unlocked' = <<"Walk">>
    /\ command_count' = 1
    /\ ResetPlayer(LevelSpawn(lvl))
    /\ Ran("respawn")
    /\ UNCHANGED <<lvl, sequence, autoplay, entered, editor_cursor, finished,
                   obstacles, tick_start, vq, iq, flipped>>

\* mutant of RespawnReset: the reset also clears the player's script
RespawnResetClearsScript ==
    /\ Ready("respawn")
    /\ ~NewCheckpoint
    /\ \E r \in BOOLEAN :
          /\ r \/ Collided
    /\ sequence' = <<>>
    /\ ResetPlayer(last_checkpoint)
    /\ Ran("respawn")
    /\ UNCHANGED <<levelVars, autoplay, entered, editor_cursor, finished,
                   obstacles, tick_start, vq, iq, flipped>>

\* a hazard rests on the avatar's cell, or R was just pressed
RespawnReset ==
    /\ Ready("respawn")
    /\ ~NewCheckpoint
    /\ \E r \in BOOLEAN :
          /\ r \/ Collided
    /\ ResetPlayer(last_checkpoint)
    /\ Ran("respawn")
    /\ UNCHANGED <<levelVars, sequence, autoplay, entered, editor_cursor, finished,
                   obstacles, tick_start, vq, iq, flipped>>

(***************************************************************************)
(* update_animation (player.rs).                                           *)
(***************************************************************************)
\* state.autoplay after the G key is handled
Toggle(g) == IF g THEN ~autoplay ELSE autoplay

\* the keys debug_actions reads (one held at a time), or none
DebugKeys == {"none", "KeyA", "KeyD", "KeyW", "KeyS", "Space"}

\* debug_actions: the command a held key asks for (None without one; a build
\* without the dev feature behaves as if no key were held)
debug_actions(key, dir) ==
    CASE key = "KeyA" -> IF dir # -1 THEN "Turn" ELSE "Walk"
      [] key = "KeyD" -> IF dir # 1 THEN "Turn" ELSE "Walk"
      [] key = "KeyW" -> "Climb"
      [] key = "KeyS" -> "Drop"
      [] key = "Space" -> "Idle"
      [] OTHER -> None

\* the facing after the manual controls: a manual Turn flips it before validation
ManualFacing(key) == IF debug_actions(key, x_dir) = "Turn" THEN -x_dir ELSE x_dir

\* the animation the manual controls yield
ManualAnimation(key) ==
    IF /\ debug_actions(key, x_dir) # None
       /\ check_valid(LevelWalls(lvl), pos, debug_actions(key, x_dir), ManualFacing(key))
    THEN debug_actions(key, x_dir)
    ELSE None

\* mutant of Interpreted: the commands are validated for the opposite facing
InterpretedBackwards(key) ==
    [action_interpreter(sequence, cursor, 0 - ManualFacing(key), pos, LevelWalls(lvl))
        EXCEPT !.x_dir = 0 - @]

\* the call action_interpreter(&mut state, pos, &level, assets)
Interpreted(key) ==
    action_interpreter(sequence, cursor, ManualFacing(key), pos, LevelWalls(lvl))

\* mutant of NextCell: the landing cell is not mirrored by the facing
NextCellUnmirrored(cell, anim, dir) == Add(cell, final_offset(anim, 1))

\* next_pos.0 = pos.0 + animation.final_offset(state.x_dir)
NextCell(cell, anim, dir) == Add(cell, final_offset(anim, dir))

\* mutant of Program: without an animation the clock is restarted in any mode
ProgramAlwaysRestarts(anim, dir, auto) ==
    /\ animation' = anim
    /\ x_dir' = dir
    /\ autoplay' = auto
    /\ finished' = FALSE
    /\ IF anim # None
       THEN /\ tick_start' = tick_start + 1
            /\ next_pos' = NextCell(pos, anim, dir)
       ELSE UNCHANGED <<tick_start, next_pos>>

\* the end of update_animation: an animation is committed to the clock and
\* TickStart is sent; without one the clock is restarted under autoplay only
Program(anim, dir, auto) ==
    /\ animation' = anim
    /\ x_dir' = dir
    /\ autoplay' = auto
    /\ IF anim # None
       THEN /\ tick_start' = tick_start + 1
            /\ next_pos' = NextCell(pos, anim, dir)
            /\ finished' = FALSE
       ELSE /\ finished' = ~auto
            /\ UNCHANGED <<tick_start, next_pos>>

\* the editor is enabled or the timer is running: only G is handled
AnimGated ==
    /\ Ready("update_animation")
    /\ enabled \/ ~finished
    /\ \E g \in BOOLEAN : autoplay' = Toggle(g)
    /\ Ran("update_animation")
    /\ UNCHANGED <<levelVars, pos, next_pos, x_dir, animation, sequence, cursor,
                   editorVars, finished, obstacles, tick_start, reset, vq, iq, flipped>>

\* manual mode and F is not held: the interpreter is not consulted, and the
\* manual controls' animation (if any) is played
AnimManual ==
    /\ Ready("update_animation")
    /\ ~enabled /\ finished
    /\ \E g \in BOOLEAN, key \in DebugKeys :
          /\ ~Toggle(g)
          /\ Program(ManualAnimation(key), ManualFacing(key), Toggle(g))
    /\ Ran("update_animation")
    /\ UNCHANGED <<levelVars, pos, sequence, cursor, editorVars, obstacles, reset,
                   vq, iq, flipped>>

\* mutant of AnimScript: the timer is not asked whether it finished
AnimScriptMidFlight ==
    /\ Ready("update_animation")
    /\ ~enabled
    /\ \E g, f \in BOOLEAN, key \in DebugKeys :
          /\ f \/ Toggle(g)
          /\ cursor' = Interpreted(key).cursor
          /\ Program(Interpreted(key).anim, Interpreted(key).x_dir, Toggle(g))
    /\ Ran("update_animation")
    /\ UNCHANGED <<levelVars, pos, sequence, editorVars, obstacles, reset, vq, iq, flipped>>

\* autoplay, or F is held: the interpreter's answer is played
AnimScript ==
    /\ Ready("update_animation")
    /\ ~enabled /\ finished
    /\ \E g, f \in BOOLEAN, key \in DebugKeys :
          /\ f \/ Toggle(g)
          /\ cursor' = Interpreted(key).cursor
          /\ Program(Interpreted(key).anim, Interpreted(key).x_dir, Toggle(g))
    /\ Ran("update_animation")
    /\ UNCHANGED <<levelVars, pos, sequence, editorVars, obstacles, reset, vq, iq, flipped>>

(***************************************************************************)
(* The obstacles' movement (obstacle.rs).                                  *)
(***************************************************************************)
\* one obstacle's turn, had an odd count of tick-starts left it alone
ObstacleStepNoReverse(o, spawn, ticks, was_reset) ==
    IF was_reset
    THEN [grid |-> spawn.pos, next_grid |-> spawn.pos, going_up |-> spawn.going_up]
    ELSE o

\* mutant of ObstacleStep: the direction is kept when the next cell is set
ObstacleStepKeepsGoing(o, spawn, ticks, was_reset) ==
    IF was_reset
    THEN [grid |-> spawn.pos, next_grid |-> spawn.pos, going_up |-> spawn.going_up]
    ELSE IF ticks % 2 = 1
    THEN [o EXCEPT !.next_grid = Add(o.grid, IF o.going_up THEN UP ELSE DOWN)]
    ELSE o

\* one obstacle's turn in the loop over the query
ObstacleStep(o, spawn, ticks, was_reset) ==
    LET stepped == IF ticks % 2 = 1
                   THEN [o EXCEPT !.next_grid = Add(o.grid, IF o.going_up THEN UP ELSE DOWN),
                                  !.going_up = ~o.going_up]
                   ELSE o
    IN  IF was_reset
        THEN [grid |-> spawn.pos, next_grid |-> spawn.pos, going_up |-> spawn.going_up]
        ELSE stepped

\* the TickStart and Reset events sent since the last run are read
Movement ==
    /\ Ready("movement")
    /\ obstacles' = [i \in DOMAIN obstacles |->
                        ObstacleStep(obstacles[i], ObstacleSpawns(lvl)[i], tick_start, reset)]
    /\ tick_start' = 0
    /\ reset' = FALSE
    /\ flipped' = IF reset THEN FALSE
                  ELSE IF tick_start > 0
                  THEN \E i \in DOMAIN obstacles :
                           obstacles'[i].going_up # obstacles[i].going_up
                  ELSE flipped
    /\ Ran("movement")
    /\ UNCHANGED <<levelVars, playerVars, editorVars, finished, vq, iq>>

(***************************************************************************)
(* edit_script and submit_script (editor.rs).                              *)
(***************************************************************************)
CommandKeys == {"KeyW", "KeyC", "KeyD", "KeyI", "KeyJ", "KeyT", "BracketLeft",
                "BracketRight"}

EditKeys == CommandKeys \cup {"ArrowRight", "ArrowLeft", "ArrowUp", "ArrowDown",
                              "Backspace", "Delete"}

\* key_command_map
key_command_map(key) ==
    CASE key = "KeyW" -> "Walk"
      [] key = "KeyC" -> "Climb"
      [] key = "KeyD" -> "Drop"
      [] key = "KeyI" -> "Idle"
      [] key = "KeyJ" -> "Jump"
      [] key = "KeyT" -> "Turn"
      [] key = "BracketLeft" -> "OpenBracket"
      [] key = "BracketRight" -> "CloseBracket"

\* mutant of UnlockCheck: every key is admitted by Walk's unlock
UnlockCheckWalk(command) == "Walk"

\* the command whose unlock admits a key's command
UnlockCheck(command) == IF command = "CloseBracket" THEN "OpenBracket" ELSE command

\* Vec::insert(index, command)
Insert(list, index, command) ==
    SubSeq(list, 1, index) \o <<command>> \o SubSeq(list, index + 1, Len(list))

\* Vec::remove(index)
Remove(list, index) == SubSeq(list, 1, index) \o SubSeq(list, index + 2, Len(list))

\* the editor buffer and cursor after one key is handled
Edited(key) ==
    CASE key \in CommandKeys ->
            IF Contains(unlocked, UnlockCheck(key_command_map(key)))
            THEN <<Insert(entered, editor_cursor, key_command_map(key)), editor_cursor + 1>>
            ELSE <<entered, editor_cursor>>
      [] key = "ArrowRight" ->
            <<entered, IF editor_cursor + 1 <= Len(entered) THEN editor_cursor + 1
                       ELSE Len(entered)>>
      [] key = "ArrowLeft" ->
            <<entered, IF editor_cursor > 0 THEN editor_cursor - 1 ELSE 0>>
      [] key = "ArrowUp" -> <<entered, 0>>
      [] key = "ArrowDown" -> <<entered, Len(entered)>>
      [] key = "Backspace" ->
            <<IF editor_cursor > 0 THEN Remove(entered, editor_cursor - 1) ELSE entered,
              IF editor_cursor > 0 THEN editor_cursor - 1 ELSE 0>>
      [] key = "Delete" ->
            <<IF editor_cursor < Len(entered) THEN Remove(entered, editor_cursor)
              ELSE entered,
              editor_cursor>>

\* mutant of EditKey: the keys are handled while the editor is disabled too
EditKeyAlways ==
    /\ \E key \in EditKeys :
          /\ key \in CommandKeys => Len(entered) < MaxEntered
          /\ entered' = Edited(key)[1]
          /\ editor_cursor' = Edited(key)[2]
    /\ UNCHANGED <<levelVars, playerVars, enabled, finished, obstacles, tick_start,
                   reset, ran, vq, iq, flipped>>

\* one key was just pressed while the editor is enabled
EditKey ==
    /\ enabled
    /\ \E key \in EditKeys :
          /\ key \in CommandKeys => Len(entered) < MaxEntered
          /\ entered' = Edited(key)[1]
          /\ editor_cursor' = Edited(key)[2]
    /\ UNCHANGED <<levelVars, playerVars, enabled, finished, obstacles, tick_start,
                   reset, ran, vq, iq, flipped>>

\* n copies of a command
RECURSIVE Repeat(_, _)
Repeat(command, n) == IF n <= 0 THEN <<>> ELSE <<command>> \o Repeat(command, n - 1)

\* mutant of FixSequence: nothing is padded
FixNothing(script) == script

\* new_sequence: OpenBrackets, the entered commands, CloseBrackets
FixSequence(script) ==
    Repeat("OpenBracket", 0 - calculate_bracket_balance(script))
        \o script
        \o Repeat("CloseBracket", calculate_bracket_balance(script))

\* mutant of SubmitEmpty: the empty buffer becomes the player's script
SubmitEmptyAccepted ==
    /\ entered = <<>>
    /\ enabled' = FALSE
    /\ sequence' = entered
    /\ cursor' = 0
    /\ UNCHANGED <<levelVars, pos, next_pos, x_dir, animation, autoplay, entered,
                   editor_cursor, finished, obstacles, tick_start, reset, ran, vq, iq,
                   flipped>>

\* Enter with an empty buffer: submit_script returns at once
SubmitEmpty ==
    /\ entered = <<>>
    /\ UNCHANGED vars

\* the fixed sequence is longer than the command budget
SubmitReject ==
    /\ entered # <<>>
    /\ Len(FixSequence(entered)) > command_count
    /\ entered' = FixSequence(entered)
    /\ editor_cursor' = Len(FixSequence(entered))
    /\ UNCHANGED <<levelVars, playerVars, enabled, finished, obstacles, tick_start,
                   reset, ran, vq, iq, flipped>>

\* mutant of SubmitAccept: the length is not compared with the budget
SubmitAcceptAnyLength ==
    /\ entered # <<>>
    /\ entered' = FixSequence(entered)
    /\ editor_cursor' = Len(FixSequence(entered))
    /\ enabled' = FALSE
    /\ sequence' = FixSequence(entered)
    /\ cursor' = 0
    /\ UNCHANGED <<levelVars, pos, next_pos, x_dir, animation, autoplay, finished,
                   obstacles, tick_start, reset, ran, vq, iq, flipped>>

\* mutant of SubmitAccept: an empty buffer is submitted too
SubmitAcceptEmpty ==
    /\ Len(FixSequence(entered)) <= command_count
    /\ entered' = FixSequence(entered)
    /\ editor_cursor' = Len(FixSequence(entered))
    /\ enabled' = FALSE
    /\ sequence' = FixSequence(entered)
    /\ cursor' = 0
    /\ UNCHANGED <<levelVars, pos, next_pos, x_dir, animation, autoplay, finished,
                   obstacles, tick_start, reset, ran, vq, iq, flipped>>

\* mutant of SubmitAccept: the facing is reset with the cursor
SubmitAcceptResetsFacing ==
    /\ entered # <<>>
    /\ Len(FixSequence(entered)) <= command_count
    /\ entered' = FixSequence(entered)
    /\ editor_cursor' = Len(FixSequence(entered))
    /\ enabled' = FALSE
    /\ sequence' = FixSequence(entered)
    /\ cursor' = 0
    /\ x_dir' = 1
    /\ UNCHANGED <<levelVars, pos, next_pos, animation, autoplay, finished,
                   obstacles, tick_start, reset, ran, vq, iq, flipped>>

\* the fixed sequence replaces the player's script
SubmitAccept ==
    /\ entered # <<>>
    /\ Len(FixSequence(entered)) <= command_count
    /\ entered' = FixSequence(entered)
    /\ editor_cursor' = Len(FixSequence(entered))
    /\ enabled' = FALSE
    /\ sequence' = FixSequence(entered)
    /\ cursor' = 0
    /\ UNCHANGED <<levelVars, pos, next_pos, x_dir, animation, autoplay, finished,
                   obstacles, tick_start, reset, ran, vq, iq, flipped>>

(***************************************************************************)
(* The game: the state after load_level spawned the player, and the        *)
(* systems of the Update schedule.                                         *)
(***************************************************************************)
\* no validity query and no interpreter run (the other specifications' state)
Off == [phase |-> "off"]

\* the game's state in the specifications of a single function
GameOff ==
    /\ lvl = 0
    /\ last_checkpoint = ZERO
    /\ unlocked = <<>>
    /\ command_count = 0
    /\ pos = ZERO
    /\ next_pos = ZERO
    /\ x_dir = 1
    /\ animation = None
    /\ sequence = <<>>
    /\ cursor = 0
    /\ autoplay = TRUE
    /\ enabled = TRUE
    /\ entered = <<>>
    /\ editor_cursor = 0
    /\ finished = TRUE
    /\ obstacles = <<>>
    /\ tick_start = 0
    /\ reset = FALSE
    /\ ran = {}
    /\ flipped = FALSE

Init ==
    /\ lvl \in Levels
    /\ last_checkpoint = LevelSpawn(lvl)
    /\ unlocked = <<"Walk">>
    /\ command_count = 1
    /\ pos = LevelSpawn(lvl)
    /\ next_pos = LevelSpawn(lvl)
    /\ x_dir = 1
    /\ animation = None
    /\ sequence = <<>>
    /\ cursor = 0
    /\ autoplay = TRUE
    /\ enabled = TRUE
    /\ entered = <<>>
    /\ editor_cursor = 0
    /\ finished \in BOOLEAN
    /\ obstacles = [i \in DOMAIN ObstacleSpawns(lvl) |->
                       [grid |-> ObstacleSpawns(lvl)[i].pos,
                        next_grid |-> ObstacleSpawns(lvl)[i].pos,
                        going_up |-> ObstacleSpawns(lvl)[i].going_up]]
    /\ tick_start = 0
    /\ reset = FALSE
    /\ ran = {}
    /\ vq = Off
    /\ iq = Off
    /\ flipped = FALSE

Next ==
    \/ TickNoFinish
    \/ TickFinish
    \/ RespawnNone
    \/ RespawnCheckpoint
    \/ RespawnReset
    \/ AnimGated
    \/ AnimManual
    \/ AnimScript
    \/ Movement
    \/ EditKey
    \/ SubmitEmpty
    \/ SubmitReject
    \/ SubmitAccept

Spec == Init /\ [][Next]_vars

(***************************************************************************)
(* check_valid alone: a level, a cell, a facing and a primitive are drawn, *)
(* and the query is answered.                                              *)
(***************************************************************************)
\* the cells a drawn level may wall
Region == {<<x, y>> : x \in -2..3, y \in -2..2}

\* the cells a query starts from
QueryCells == {<<0, 1>>, <<1, 0>>}

\* the subsets of S with at most k elements
RECURSIVE KSubsets(_, _)
KSubsets(S, k) ==
    IF k = 0 THEN {{}}
    ELSE KSubsets(S, k - 1) \cup {T \cup {e} : T \in KSubsets(S, k - 1), e \in S}

\* a level that is one floor and nothing else: the walls (0..5, 0)
FloorWalls == {<<x, 0>> : x \in 0..5}

\* the cells on top of that floor
FloorCells == {<<x, 1>> : x \in 0..5}

VInit ==
    /\ vq \in {[phase |-> "query", walls |-> w, pos |-> p, x_dir |-> d,
                command |-> c, valid |-> FALSE] :
                  w \in KSubsets(Region, MaxWalls), p \in QueryCells, d \in {-1, 1},
                  c \in MoveCommands}
             \cup
             {[phase |-> "query", walls |-> FloorWalls, pos |-> p, x_dir |-> d,
               command |-> c, valid |-> FALSE] :
                  p \in FloorCells, d \in {-1, 1}, c \in MoveCommands}
    /\ iq = Off
    /\ GameOff

\* level.check_valid(pos, command, x_dir, assets).is_some()
VCheck ==
    /\ vq.phase = "query"
    /\ vq' = [vq EXCEPT !.phase = "checked",
                        !.valid = check_valid(vq.walls, vq.pos, vq.command, vq.x_dir)]
    /\ UNCHANGED <<gameVars, iq>>

VNext == VCheck

VSpec == VInit /\ [][VNext]_vars

(***************************************************************************)
(* action_interpreter alone: a script, a cursor, a facing and a cell of a  *)
(* fixed level are drawn; the interpreter is called tick after tick, and a *)
(* returned animation moves the avatar as update_animation and             *)
(* update_tick_timer do.                                                   *)
(***************************************************************************)
\* the level of the interpreter runs: a floor (0..3, 0) with a block at (2, 1)
RunWalls == {<<x, 0>> : x \in 0..3} \cup {<<2, 1>>}

\* the cells of that level the avatar can rest on
RunCells == {<<0, 1>>, <<1, 1>>, <<2, 2>>, <<3, 1>>}

\* the commands of the drawn scripts
RunCommands == {"Walk", "Climb", "Turn", "OpenBracket", "CloseBracket"}

\* the scripts submit_script can hand over: not empty, bracket balance 0
RunScripts ==
    {s \in UNION {[1..n -> RunCommands] : n \in 1..MaxLen} :
        calculate_bracket_balance(s) = 0}

IInit ==
    /\ iq \in {[sequence |-> s, cursor |-> c, x_dir |-> d, pos |-> p,
                called |-> FALSE, pending |-> FALSE,
                from |-> [cursor |-> c, x_dir |-> d, pos |-> p],
                out |-> [index |-> 0, anim |-> None, trace |-> <<>>]] :
                  s \in RunScripts, c \in 0..(MaxLen - 1), d \in {-1, 1},
                  p \in RunCells}
    /\ iq.cursor < Len(iq.sequence)
    /\ vq = Off
    /\ GameOff

\* one tick's call of action_interpreter; from and out keep its arguments
\* and its results
ICall ==
    /\ ~iq.pending
    /\ LET res == action_interpreter(iq.sequence, iq.cursor, iq.x_dir, iq.pos, RunWalls)
       IN  iq' = [iq EXCEPT !.cursor = res.cursor,
                            !.x_dir = res.x_dir,
                            !.called = TRUE,
                            !.pending = (res.anim # None),
                            !.from = [cursor |-> iq.cursor, x_dir |-> iq.x_dir,
                                      pos |-> iq.pos],
                            !.out = [index |-> res.index, anim |-> res.anim,
                                     trace |-> res.trace]]
    /\ UNCHANGED <<gameVars, vq>>

\* the committed action completes: the avatar rests on the next cell
IFold ==
    /\ iq.pending
    /\ iq' = [iq EXCEPT !.pending = FALSE,
                        !.pos = FoldTo(iq.pos, NextCell(iq.pos, iq.out.anim, iq.x_dir))]
    /\ UNCHANGED <<gameVars, vq>>

INext == ICall \/ IFold

ISpec == IInit /\ [][INext]_vars

\* a run as submit_script and respawn start it: cursor 0, facing +1
IRunInit == IInit /\ iq.cursor = 0 /\ iq.x_dir = 1

\* under autoplay update_animation calls the interpreter again on every tick,
\* and update_tick_timer completes every committed action
IFairSpec == IRunInit /\ [][INext]_vars /\ WF_vars(ICall) /\ WF_vars(IFold)

(***************************************************************************)
(* Properties of check_valid (checked under VSpec).                        *)
(***************************************************************************)
\* the cell dx ahead (in the facing's direction) and dy above the query's cell
Ahead(dx, dy) == <<vq.pos[1] + dx * vq.x_dir, vq.pos[2] + dy>>

\* the cells the query's primitive passes through are all free
PathFree ==
    CASE vq.command = "Walk" -> Ahead(1, 0) \notin vq.walls
      [] vq.command = "Climb" -> Ahead(0, 1) \notin vq.walls /\ Ahead(1, 1) \notin vq.walls
      [] vq.command = "Drop" -> Ahead(1, 0) \notin vq.walls /\ Ahead(1, -1) \notin vq.walls
      [] vq.command = "Jump" ->
            /\ Ahead(1, 0) \notin vq.walls /\ Ahead(0, 1) \notin vq.walls
            /\ Ahead(1, 1) \notin vq.walls /\ Ahead(2, 1) \notin vq.walls
      [] OTHER -> TRUE

\* the cell below the cell the query's primitive ends on
Support ==
    CASE vq.command = "Walk" -> Ahead(1, -1)
      [] vq.command = "Climb" -> Ahead(1, 0)
      [] vq.command = "Drop" -> Ahead(1, -2)
      [] vq.command = "Jump" -> Ahead(2, 0)
      [] OTHER -> Ahead(0, -1)

\* C1: for Walk, Climb, Drop and Jump, at every cell and facing, check_valid
\* succeeds iff every touched cell (x mirrored by the facing, y kept) is not
\* solid and the cell below the cell the primitive ends on is solid.
C1_PathAndSupport ==
    (vq.phase = "checked" /\ vq.command \in {"Walk", "Climb", "Drop", "Jump"})
        => (vq.valid <=> (PathFree /\ Support \in vq.walls))

\* a Jump to the left was found valid, with a wall right of the start cell
C1_Witness ==
    /\ vq.phase = "checked"
    /\ vq.command = "Jump"
    /\ vq.x_dir = -1
    /\ vq.valid
    /\ <<vq.pos[1] + 1, vq.pos[2]>> \in vq.walls

\* C2: Idle and Turn are valid iff the cell directly below is solid, whatever
\* the facing and whatever else is solid (no cell of a path is scanned).
C2_StationaryNeedsGroundOnly ==
    (vq.phase = "checked" /\ vq.command \in {"Idle", "Turn"})
        => (vq.valid <=> Add(vq.pos, DOWN) \in vq.walls)

\* a Turn was found valid with a wall in the cell ahead
C2_Witness ==
    /\ vq.phase = "checked"
    /\ vq.command = "Turn"
    /\ vq.valid
    /\ Ahead(1, 0) \in vq.walls

(***************************************************************************)
(* Properties of the interpreter (checked under ISpec).                    *)
(***************************************************************************)
\* OpenBrackets minus CloseBrackets among the slots a..b (0-based, inclusive)
Net(s, a, b) ==
    Cardinality({k \in a..b : s[k + 1] = "OpenBracket"})
        - Cardinality({k \in a..b : s[k + 1] = "CloseBracket"})

\* the running balance never goes negative and ends at 0
WellNested(s) ==
    /\ Net(s, 0, Len(s) - 1) = 0
    /\ \A k \in 0..(Len(s) - 1) : Net(s, 0, k) >= 0

\* slot i lies inside a bracket scope
InScope(s, i) == Net(s, 0, i) > 0

\* the CloseBracket that ends the innermost scope around slot i
EnclosingClose(s, i) ==
    CHOOSE j \in i..(Len(s) - 1) :
        /\ Net(s, i, j) = -1
        /\ \A k \in i..(j - 1) : Net(s, i, k) >= 0

\* the OpenBracket that the CloseBracket of slot c closes
MatchingOpen(s, c) ==
    CHOOSE j \in 0..c :
        /\ s[j + 1] = "OpenBracket"
        /\ Net(s, j, c) = 0
        /\ \A k \in (j + 1)..c : Net(s, k, c) < 0

\* the command of the k-th slot the last call visited
Visited(k) == iq.sequence[iq.out.trace[k] + 1]

\* the command was valid where the last call was made
ValidAtCall(command) == check_valid(RunWalls, iq.from.pos, command, iq.from.x_dir)

\* C4: one call of the interpreter on a non-empty script of length N,
\* well-nested or not, visits at most N slots and returns.
C4_AtMostLenVisits ==
    iq.called => Len(iq.out.trace) <= Len(iq.sequence)

\* a call on a script that is not well-nested used up all N visits
C4_Witness ==
    /\ iq.called
    /\ ~WellNested(iq.sequence)
    /\ Len(iq.sequence) >= 2
    /\ Len(iq.out.trace) = Len(iq.sequence)
    /\ iq.out.anim = None

\* C5: a movement primitive reached at slot i that is valid is committed: the
\* cursor is (i + 1) mod len, the facing is negated iff it is Turn, the call
\* returns i and the primitive's animation, and it is the last slot visited.
C5_ValidPrimitiveCommits ==
    iq.called =>
        \A k \in 1..Len(iq.out.trace) :
            (Visited(k) \in MoveCommands /\ ValidAtCall(Visited(k))) =>
                /\ k = Len(iq.out.trace)
                /\ iq.cursor = (iq.out.trace[k] + 1) % Len(iq.sequence)
                /\ iq.x_dir = IF Visited(k) = "Turn" THEN -iq.from.x_dir ELSE iq.from.x_dir
                /\ iq.out.index = iq.out.trace[k]
                /\ iq.out.anim = Visited(k)

\* a Turn reached through a bracket was committed and negated the facing
C5_Witness ==
    /\ iq.called
    /\ Len(iq.out.trace) >= 2
    /\ iq.out.anim = "Turn"
    /\ iq.x_dir = -iq.from.x_dir
    /\ iq.cursor = (iq.out.index + 1) % Len(iq.sequence)

\* the script "(cw)"
ScenarioC == <<"OpenBracket", "Climb", "Walk", "CloseBracket">>

\* C6: in a well-nested script an invalid movement primitive reached at slot i
\* inside a scope sends the cursor one past the CloseBracket of the innermost
\* scope around i (mod len); the call returns i and no animation and visits
\* no further slot.  For "(cw)" from cursor 0 with Climb invalid and Walk
\* valid, the call returns slot 1, no animation, and the cursor is 0.
C6_InvalidPrimitiveSkipsScope ==
    iq.called =>
        /\ \A k \in 1..Len(iq.out.trace) :
              (/\ WellNested(iq.sequence)
               /\ Visited(k) \in MoveCommands
               /\ ~ValidAtCall(Visited(k))
               /\ InScope(iq.sequence, iq.out.trace[k])) =>
                  /\ k = Len(iq.out.trace)
                  /\ iq.cursor = (EnclosingClose(iq.sequence, iq.out.trace[k]) + 1)
                                     % Len(iq.sequence)
                  /\ iq.x_dir = iq.from.x_dir
                  /\ iq.out.index = iq.out.trace[k]
                  /\ iq.out.anim = None
        /\ (/\ iq.sequence = ScenarioC
            /\ iq.from.cursor = 0
            /\ ~ValidAtCall("Climb")
            /\ ValidAtCall("Walk")) =>
               (iq.out.index = 1 /\ iq.out.anim = None /\ iq.cursor = 0)

\* a Climb failed inside a scope that ends before the script does
C6_Witness ==
    /\ iq.called
    /\ WellNested(iq.sequence)
    /\ iq.out.anim = None
    /\ iq.sequence[iq.out.index + 1] = "Climb"
    /\ InScope(iq.sequence, iq.out.index)
    /\ iq.cursor = EnclosingClose(iq.sequence, iq.out.index) + 1
    /\ iq.cursor > iq.out.index

\* "(cw)" was called from cursor 0 where Climb is invalid and Walk is valid
C6_ScenarioWitness ==
    /\ iq.called
    /\ iq.sequence = ScenarioC
    /\ iq.from.cursor = 0
    /\ ~ValidAtCall("Climb")
    /\ ValidAtCall("Walk")
    /\ iq.out.index = 1

\* C7: in a well-nested script a visited CloseBracket sends the scan to the
\* slot right after its matching OpenBracket (nesting counted): that slot is
\* visited next, or is where the cursor rests when the visits are used up.
C7_CloseJumpsToMatchingOpen ==
    (iq.called /\ WellNested(iq.sequence)) =>
        \A k \in 1..Len(iq.out.trace) :
            Visited(k) = "CloseBracket" =>
                LET body == (MatchingOpen(iq.sequence, iq.out.trace[k]) + 1)
                                % Len(iq.sequence)
                IN  IF k < Len(iq.out.trace)
                    THEN iq.out.trace[k + 1] = body
                    ELSE iq.cursor = body /\ iq.out.anim = None

\* the call started on a CloseBracket (where the commit of a body's last
\* primitive leaves the cursor) and committed the first primitive of the body
C7_Witness ==
    /\ iq.called
    /\ WellNested(iq.sequence)
    /\ Len(iq.out.trace) = 2
    /\ iq.from.cursor = iq.out.trace[1]
    /\ Visited(1) = "CloseBracket"
    /\ iq.out.anim # None
    /\ iq.out.index = MatchingOpen(iq.sequence, iq.from.cursor) + 1
    /\ iq.out.index < iq.from.cursor - 1

\* the last call failed or found nothing, and the avatar rests
Failed == iq.called /\ ~iq.pending /\ iq.out.anim = None

\* the command is valid where the avatar rests now
ValidNow(command) == check_valid(RunWalls, iq.pos, command, iq.x_dir)

\* the instruction at the cursor is an invalid movement primitive while a later
\* movement primitive of the script is valid on the avatar's cell
StuckBeforeValid ==
    /\ Failed
    /\ iq.sequence[iq.cursor + 1] \in MoveCommands
    /\ ~ValidNow(iq.sequence[iq.cursor + 1])
    /\ \E j \in (iq.cursor + 1)..(Len(iq.sequence) - 1) :
          iq.sequence[j + 1] \in MoveCommands /\ ValidNow(iq.sequence[j + 1])

\* C8 as stated: with a call every tick, once the instruction at the cursor is
\* invalid and a later movement primitive is valid on the avatar's cell, an
\* action is eventually committed.
C8_LaterPrimitiveCommitted == StuckBeforeValid ~> (iq.out.anim # None)

\* a movement primitive failed inside a scope of a well-nested script, and slot
\* c, right after that scope's CloseBracket, holds a movement primitive that is
\* valid on the avatar's cell
FailedBeforeValid(c) ==
    /\ Failed
    /\ WellNested(iq.sequence)
    /\ iq.sequence[iq.out.index + 1] \in MoveCommands
    /\ InScope(iq.sequence, iq.out.index)
    /\ c = EnclosingClose(iq.sequence, iq.out.index) + 1
    /\ c < Len(iq.sequence)
    /\ iq.sequence[c + 1] \in MoveCommands
    /\ ValidNow(iq.sequence[c + 1])

\* the slots that can follow a scope with a primitive in it: the shortest such
\* scope fills the slots 0..2
AfterScopeSlots == {c \in 0..(MaxLen - 1) : c >= 3}

\* C8 amended: with a call every tick, after a movement primitive fails inside
\* a bracket scope of a well-nested script, a valid movement primitive in the
\* slot right after that scope's CloseBracket is committed.
C8_PrimitiveAfterScopeCommitted ==
    \A c \in AfterScopeSlots :
        FailedBeforeValid(c) ~> (iq.out.anim # None /\ iq.out.index = c)

\* a Climb failed inside a scope and the Walk after the scope was committed
C8_Witness ==
    /\ iq.called
    /\ WellNested(iq.sequence)
    /\ iq.out.anim = "Walk"
    /\ iq.out.index >= 3
    /\ iq.from.cursor = iq.out.index
    /\ iq.sequence[iq.out.index] = "CloseBracket"
    /\ iq.sequence[iq.out.index - 1] = "Climb"
    /\ ~check_valid(RunWalls, iq.from.pos, "Climb", iq.from.x_dir)

(***************************************************************************)
(* Properties of the game (checked under Spec).                            *)
(***************************************************************************)
\* the spawn cell and every checkpoint cell of a level stand on a solid cell
GroundedMarks(l) ==
    \A cell \in {LevelSpawn(l)} \cup Checkpoints(l) :
        is_solid(LevelWalls(l), Add(cell, DOWN))

\* C3: when the spawn cell and the checkpoint cells stand on solid cells, the
\* avatar's resting cell always has a solid cell directly below it, whatever
\* actions were committed, ticks failed, respawns happened or scripts submitted.
C3_RestingCellGrounded ==
    GroundedMarks(lvl) => is_solid(LevelWalls(lvl), Add(pos, DOWN))

\* after a checkpoint respawn and a submission, a committed action completed
\* on a cell that is neither the spawn cell nor a checkpoint
C3_Witness ==
    /\ GroundedMarks(lvl)
    /\ last_checkpoint # LevelSpawn(lvl)
    /\ ~enabled
    /\ animation # None
    /\ finished
    /\ pos = next_pos
    /\ pos \notin {LevelSpawn(lvl)} \cup Checkpoints(lvl)

\* C9 as stated: every script submit_script hands to the interpreter is
\* well-nested (the running bracket balance never goes negative and ends at 0).
C9_SubmittedWellNested == WellNested(sequence)

\* C10: right after a respawn (hazard, R key or new checkpoint) the resting
\* cell and the next cell are last_checkpoint, the facing is +1, the cursor
\* is 0, no animation is in flight and the editor is enabled.
C10_RespawnPostcondition ==
    [][(RespawnCheckpoint \/ RespawnReset) =>
          /\ pos' = last_checkpoint'
          /\ next_pos' = last_checkpoint'
          /\ x_dir' = 1
          /\ cursor' = 0
          /\ animation' = None
          /\ enabled']_vars

\* a respawn of this frame put the avatar of a submitted script back on a
\* checkpoint it had reached
C10_Witness ==
    /\ reset
    /\ enabled
    /\ sequence # <<>>
    /\ last_checkpoint # LevelSpawn(lvl)
    /\ pos = last_checkpoint
    /\ next_pos = last_checkpoint
    /\ x_dir = 1
    /\ cursor = 0
    /\ animation = None

\* one run of the respawn system
RespawnRuns == RespawnNone \/ RespawnCheckpoint \/ RespawnReset

\* C11: a run of respawn with the avatar resting on a checkpoint other than
\* last_checkpoint sets last_checkpoint to that cell, adds the checkpoint's
\* command to unlocked when it grants one that is not there yet, and sets
\* command_count to the larger of its old value and the checkpoint's count.
C11_CheckpointStep ==
    [][(RespawnRuns /\ pos \in Checkpoints(lvl) /\ pos # last_checkpoint) =>
          LET granted == LevelUnlocks(lvl, pos)[1]
              budget == LevelUnlocks(lvl, pos)[2]
          IN  /\ last_checkpoint' = pos
              /\ unlocked' = IF granted = None \/ (\E i \in 1..Len(unlocked) : unlocked[i] = granted)
                             THEN unlocked
                             ELSE unlocked \o <<granted>>
              /\ command_count' = IF command_count >= budget THEN command_count
                                  ELSE budget]_vars

\* the second checkpoint of level 2 (no command, count 1) was taken after the
\* first (Turn, count 2): nothing was added and the budget stayed 2
C11_Witness ==
    /\ lvl = 2
    /\ last_checkpoint = <<2, 1>>
    /\ unlocked = <<"Walk", "Turn">>
    /\ command_count = 2
    /\ pos = last_checkpoint
    /\ reset

\* C12: while the avatar rests on the checkpoint that is already
\* last_checkpoint, no step changes last_checkpoint, unlocked or command_count.
C12_CheckpointIdempotent ==
    [][(pos \in Checkpoints(lvl) /\ pos = last_checkpoint) =>
          /\ last_checkpoint' = last_checkpoint
          /\ unlocked' = unlocked
          /\ command_count' = command_count]_vars

\* the avatar left its checkpoint, walked back to it facing left and rests on
\* it again; the timer and respawn have run in the frame of its arrival
C12_Witness ==
    /\ pos \in Checkpoints(lvl)
    /\ pos = last_checkpoint
    /\ pos = next_pos
    /\ finished
    /\ x_dir = -1
    /\ animation = "Walk"
    /\ ran = {"update_tick_timer", "respawn"}

\* C13 as stated: while the avatar's resting cell is the resting cell of an
\* obstacle, the resting cell changes only by a respawn that puts it on
\* last_checkpoint; no completed action moves the avatar off the hazard first.
C13_CollisionRespawnsFirst ==
    [][(Collided /\ pos' # pos) =>
          (RespawnRuns /\ pos' = last_checkpoint' /\ reset')]_vars

\* one run of the update_animation system
AnimationRuns == AnimGated \/ AnimManual \/ AnimScript

\* C14: a run of update_animation while the editor is enabled or the timer is
\* still running chooses nothing: the cursor, the facing, the animation, the
\* next cell and the timer are left alone and no TickStart is sent.
C14_NoDoubleStep ==
    [][(AnimationRuns /\ (enabled \/ ~finished)) =>
          /\ cursor' = cursor
          /\ x_dir' = x_dir
          /\ animation' = animation
          /\ next_pos' = next_pos
          /\ finished' = finished
          /\ tick_start' = tick_start]_vars

\* update_animation ran in a frame after the one that committed an action whose
\* timer is still running (that frame's TickStart was already read)
C14_Witness ==
    /\ ~enabled
    /\ ~finished
    /\ autoplay
    /\ animation # None
    /\ next_pos # pos
    /\ tick_start = 0
    /\ "update_animation" \in ran
    /\ "movement" \notin ran

\* C15: the resting cell changes only when the timer completes, and then to the
\* committed next cell, or by a respawn, and then to last_checkpoint.
C15_AtomicFold ==
    [][pos' # pos =>
          \/ TickFinish /\ ~finished /\ finished' /\ pos' = next_pos
          \/ RespawnRuns /\ pos' = last_checkpoint']_vars

\* a Climb completed: the avatar rests on the cell up and ahead, not on the
\* cell above its start that the Climb passes through
C15_Witness ==
    /\ animation = "Climb"
    /\ finished
    /\ pos = next_pos
    /\ pos = <<4, 2>>
    /\ ~reset

\* C16: while the editor is disabled no step changes the editor's buffer, the
\* editor's cursor or the player's sequence, and only a run of respawn enables
\* the editor again.
C16_ScriptFrozen ==
    [][~enabled =>
          /\ entered' = entered
          /\ editor_cursor' = editor_cursor
          /\ sequence' = sequence
          /\ enabled' => RespawnRuns]_vars

\* an accepted script of two commands is running, away from the checkpoint
C16_Witness ==
    /\ ~enabled
    /\ Len(sequence) = 2
    /\ entered = sequence
    /\ animation # None
    /\ ~finished
    /\ next_pos # last_checkpoint

\* the length of a buffer after the missing brackets are added
PaddedLen(script) ==
    Len(script)
        + (IF Net(script, 0, Len(script) - 1) >= 0 THEN Net(script, 0, Len(script) - 1)
           ELSE 0 - Net(script, 0, Len(script) - 1))

\* C17: the player's sequence is never longer than command_count, and a
\* submission whose padded length exceeds command_count leaves the sequence,
\* the script cursor and the editor's enabled flag as they were.
C17_WithinBudget ==
    /\ [](Len(sequence) <= command_count)
    /\ [][((SubmitReject \/ SubmitAccept) /\ PaddedLen(entered) > command_count) =>
             (sequence' = sequence /\ cursor' = cursor /\ enabled' = enabled)]_vars

\* after a respawn a longer buffer was submitted and rejected: the buffer is
\* over the budget and the earlier script is still the player's sequence
C17_Witness ==
    /\ enabled
    /\ Len(entered) > command_count
    /\ editor_cursor = Len(entered)
    /\ sequence # <<>>
    /\ Len(sequence) = command_count

\* C18: while the player's sequence is not empty, the script cursor is an index
\* of it: 0 <= cursor < len.
C18_CursorInRange ==
    sequence # <<>> => (0 <= cursor /\ cursor < Len(sequence))

\* the last command of a two-command script was committed and the cursor
\* wrapped to 0
C18_Witness ==
    /\ ~enabled
    /\ autoplay
    /\ Len(sequence) = 2
    /\ sequence[2] = "Turn"
    /\ animation = "Turn"
    /\ ~finished
    /\ cursor = 0

\* C19: the interpreter is consulted only while the editor is disabled, and
\* with the editor disabled the player's sequence is not empty and equals the
\* editor's buffer.
C19_NeverEmptyScript ==
    /\ [](~enabled => (sequence # <<>> /\ sequence = entered))
    /\ [][AnimScript => ~enabled]_vars

\* the interpreter was consulted in this frame and committed an action of the
\* submitted script
C19_Witness ==
    /\ ~enabled
    /\ autoplay
    /\ sequence # <<>>
    /\ sequence = entered
    /\ "update_animation" \in ran
    /\ tick_start = 1
    /\ animation = sequence[1]

\* the cell next to a cell in an obstacle's direction
Toward(cell, going_up) == <<cell[1], cell[2] + (IF going_up THEN 1 ELSE -1)>>

\* obstacle i reverses and commits the cell its old direction points to
Reverses(i) ==
    /\ obstacles'[i].going_up = ~obstacles[i].going_up
    /\ obstacles'[i].next_grid = Toward(obstacles[i].grid, obstacles[i].going_up)
    /\ obstacles'[i].grid = obstacles[i].grid

\* C20 as stated: on each tick-start event every obstacle reverses its
\* direction and commits the adjacent cell in its old direction, so that it
\* moves in lock-step with the avatar's committed actions.
C20_EveryTickStartReverses ==
    [][(Movement /\ tick_start > 0) => \A i \in DOMAIN obstacles : Reverses(i)]_vars

\* obstacle i is put back on its spawn cell with its spawn direction
Respawned(i) ==
    obstacles'[i] = [grid |-> ObstacleSpawns(lvl)[i].pos,
                     next_grid |-> ObstacleSpawns(lvl)[i].pos,
                     going_up |-> ObstacleSpawns(lvl)[i].going_up]

\* C21 as stated: obstacles flip their direction and commit a next cell only
\* on every other tick-start event, by a parity kept across tick-starts: a
\* tick-start that follows one on which they flipped leaves them alone.
C21_EveryOtherTickStart ==
    [][(Movement /\ tick_start > 0 /\ ~reset /\ flipped) => obstacles' = obstacles]_vars

\* C21 amended: the parity is that of the tick-start events read in one run of
\* movement, and at most one is pending per run; a run that reads an odd
\* number reverses every obstacle and commits the cell in its old direction,
\* also right after a run that did the same, unless a reset is read with it,
\* which puts every obstacle back on its spawn.
C21_OddReadReverses ==
    /\ [](tick_start <= 1)
    /\ [][(Movement /\ tick_start % 2 = 1) =>
              \A i \in DOMAIN obstacles :
                  IF reset THEN Respawned(i) ELSE Reverses(i)]_vars

\* two tick-starts in a row since the last reset both reversed obstacle 1: it
\* is one cell off its spawn, heading back with its spawn direction
C21_Witness ==
    /\ flipped
    /\ "movement" \in ran
    /\ obstacles # <<>>
    /\ obstacles[1].going_up = ObstacleSpawns(lvl)[1].going_up
    /\ obstacles[1].grid # ObstacleSpawns(lvl)[1].pos
    /\ obstacles[1].next_grid = ObstacleSpawns(lvl)[1].pos

\* the cell a valid primitive of the query ends on
Landing == Add(vq.pos, final_offset(vq.command, vq.x_dir))

\* C23: cells outside the set of wall cells are open air: in the level whose
\* only walls are (x, 0) for x in 0..5, Walk from (0, 1) facing +1 is valid and
\* lands on (1, 1), and Walk from (5, 1) facing +1 is invalid, (6, 0) not
\* being solid.
C23_FloorEdge ==
    (/\ vq.phase = "checked"
     /\ vq.walls = FloorWalls
     /\ vq.command = "Walk"
     /\ vq.x_dir = 1) =>
        /\ \A x \in -1..7, y \in -1..2 :
               is_solid(vq.walls, <<x, y>>) <=> (y = 0 /\ x \in 0..5)
        /\ vq.pos = <<0, 1>> => (vq.valid /\ Landing = <<1, 1>>)
        /\ vq.pos = <<5, 1>> => ~vq.valid

\* Walk facing +1 was checked on the last cell of the floor
C23_Witness ==
    /\ vq.phase = "checked"
    /\ vq.walls = FloorWalls
    /\ vq.command = "Walk"
    /\ vq.x_dir = 1
    /\ vq.pos = <<5, 1>>
    /\ ~vq.valid

\* update_animation got past its early returns: the animation is chosen anew
ChoosesAction == AnimManual \/ AnimScript

\* the displacement of a primitive for a facing: its last touched cell with
\* the horizontal component multiplied by the facing, or nothing
Displacement(command, dir) ==
    IF squares(command) = <<>> THEN ZERO
    ELSE <<squares(command)[Len(squares(command))][1] * dir,
           squares(command)[Len(squares(command))][2]>>

\* C24: when an action is committed the clock is reset (it is no longer
\* finished), exactly one tick-start event is sent and the avatar's next cell
\* becomes its resting cell plus the action's displacement mirrored by the
\* facing; when no action is yielded no tick-start event is sent and the next
\* cell stays as it was.
C24_CommitStartsTick ==
    [][ChoosesAction =>
          IF animation' # None
          THEN /\ finished' = FALSE
               /\ tick_start' = tick_start + 1
               /\ next_pos' = Add(pos, Displacement(animation', x_dir'))
          ELSE /\ tick_start' = tick_start
               /\ next_pos' = next_pos]_vars

\* a Walk facing -1 was committed this frame: one tick-start is pending and
\* the next cell is the one to the left
C24_Witness ==
    /\ "update_animation" \in ran
    /\ "movement" \notin ran
    /\ animation = "Walk"
    /\ x_dir = -1
    /\ tick_start = 1
    /\ ~finished
    /\ next_pos = Add(pos, LEFT)

\* C25 as stated: when no action is possible on a tick (clock finished, editor
\* disabled, the interpreter returns no animation) the clock is still
\* restarted, under autoplay and under manual stepping alike.
C25_NoActionRestartsClock ==
    [][(AnimScript /\ animation' = None) => finished' = FALSE]_vars

\* C25 amended: when no action is chosen the clock is restarted (with the
\* short default duration) exactly when autoplay is on; with autoplay off it
\* is left finished, so that the very next run of update_animation passes the
\* clock's gate again and re-queries the interpreter while F is held.
C25_NoActionRestartsUnderAutoplay ==
    [][(ChoosesAction /\ animation' = None) => finished' = ~autoplay']_vars

\* autoplay is off, the instruction at the cursor is an invalid primitive, and
\* update_animation has run and left the clock finished
C25_Witness ==
    /\ "update_animation" \in ran
    /\ ~enabled
    /\ ~autoplay
    /\ finished
    /\ animation = None
    /\ sequence # <<>>
    /\ sequence[cursor + 1] \in MoveCommands
    /\ ~check_valid(LevelWalls(lvl), pos, sequence[cursor + 1], x_dir)

\* C26 as stated: within one step the clock is advanced and a finished action
\* folded, then the checkpoint and respawn checks run on the new resting
\* cell, and only then is the interpreter consulted; hence no action is chosen
\* and committed from a resting cell that coincides with a hazard or that is a
\* checkpoint not yet committed.
C26_ChecksBeforeInterpreter ==
    [][(ChoosesAction /\ animation' # None) =>
          /\ ~Collided
          /\ ~NewCheckpoint]_vars

\* C27: a call of the interpreter that commits nothing (a failed attempt, or a
\* full pass over bracket markers) leaves the facing, the avatar's position
\* and the script unchanged; the interpreter changes the facing only in a call
\* that commits a Turn.
C27_NoCommitNoEffect ==
    [][ICall =>
          /\ iq'.out.anim = None =>
                 /\ iq'.x_dir = iq.x_dir
                 /\ iq'.pos = iq.pos
                 /\ iq'.sequence = iq.sequence
          /\ iq'.x_dir # iq.x_dir => iq'.out.anim = "Turn"]_vars

\* a call facing -1 ended on an invalid primitive: nothing is pending and the
\* facing is still -1
C27_Witness ==
    /\ iq.called
    /\ ~iq.pending
    /\ iq.out.anim = None
    /\ iq.sequence[iq.out.index + 1] \in MoveCommands
    /\ iq.from.x_dir = -1
    /\ iq.x_dir = -1
    /\ iq.pos = iq.from.pos

\* a call passed over bracket markers only and returned nothing
C27_BracketsOnlyWitness ==
    /\ iq.called
    /\ iq.out.anim = None
    /\ Len(iq.out.trace) = Len(iq.sequence)
    /\ \A k \in 1..Len(iq.out.trace) :
           iq.sequence[iq.out.trace[k] + 1] \in {"OpenBracket", "CloseBracket"}

\* how many times a command occurs in a script
Count(script, command) == Cardinality({k \in DOMAIN script : script[k] = command})

\* n copies of a command
Copies(command, n) == [k \in 1..n |-> command]

\* the entered sequence with max(0, -b) OpenBrackets in front of it and
\* max(0, b) CloseBrackets behind it, b being its OpenBrackets minus its
\* CloseBrackets
Padded(script) ==
    LET b == Count(script, "OpenBracket") - Count(script, "CloseBracket")
    IN  Copies("OpenBracket", IF b < 0 THEN 0 - b ELSE 0)
            \o script
            \o Copies("CloseBracket", IF b > 0 THEN b ELSE 0)

\* C28: a submission turns the entered sequence into max(0, -b) OpenBrackets,
\* the entered commands in their order, and max(0, b) CloseBrackets; the
\* result has as many OpenBrackets as CloseBrackets, it becomes the player's
\* sequence when it fits the budget, and it replaces the editor's buffer even
\* when it is rejected for exceeding the budget.
C28_AutoBalance ==
    [][(SubmitReject \/ SubmitAccept) =>
          /\ entered' = Padded(entered)
          /\ Count(entered', "OpenBracket") = Count(entered', "CloseBracket")
          /\ Len(Padded(entered)) <= command_count => sequence' = Padded(entered)
          /\ Len(Padded(entered)) > command_count => sequence' = sequence]_vars

\* a rejected submission left a padded buffer in the editor: it is balanced,
\* over the budget and longer than anything the keys can enter
C28_Witness ==
    /\ enabled
    /\ Len(entered) > MaxEntered
    /\ Len(entered) > command_count
    /\ editor_cursor = Len(entered)
    /\ Count(entered, "OpenBracket") = Count(entered, "CloseBracket")

\* C29: a respawn caused by a hazard or by the R key leaves last_checkpoint,
\* the unlocked commands, command_count and the player's sequence as they
\* were; no run of respawn takes progress back: the unlocked commands and the
\* budget only grow, and the sequence is never touched.
C29_RespawnKeepsProgress ==
    [][RespawnRuns =>
          /\ sequence' = sequence
          /\ command_count' >= command_count
          /\ SubSeq(unlocked', 1, Len(unlocked)) = unlocked
          /\ RespawnReset =>
                 /\ last_checkpoint' = last_checkpoint
                 /\ unlocked' = unlocked
                 /\ command_count' = command_count]_vars

\* level 1's only checkpoint was committed earlier (a script of two commands
\* fits the budget it granted), and a respawn of this frame put the avatar
\* back on it with the progress and the script kept
C29_Witness ==
    /\ lvl = 1
    /\ "respawn" \in ran
    /\ reset
    /\ pos = last_checkpoint
    /\ last_checkpoint # LevelSpawn(lvl)
    /\ command_count = 2
    /\ Len(unlocked) = 2
    /\ Len(sequence) = 2

\* a run of submit_script in which Enter was pressed
SubmitRuns == SubmitEmpty \/ SubmitReject \/ SubmitAccept

\* C30: submitting while the editor's buffer is empty is a no-op: the
\* player's sequence, the script cursor, the buffer, the editor's cursor and
\* the editor's enabled flag are unchanged.
C30_EmptySubmitNoOp ==
    [][(SubmitRuns /\ entered = <<>>) =>
          /\ sequence' = sequence
          /\ cursor' = cursor
          /\ entered' = entered
          /\ editor_cursor' = editor_cursor
          /\ enabled' = enabled]_vars

\* the editor is open on an emptied buffer while the player still has a
\* script: Enter can be pressed on the empty buffer
C30_Witness ==
    /\ enabled
    /\ entered = <<>>
    /\ editor_cursor = 0
    /\ sequence # <<>>

\* C31 as stated: reaching a new checkpoint performs a full respawn in the
\* same step (checkpoint committed, cells set to it, facing +1, cursor 0,
\* animation cleared, Reset sent, editor enabled), so that the running script
\* stops at every newly reached checkpoint: while the avatar rests on a
\* checkpoint that is not committed yet, no step takes it off that cell.
C31_StopsAtEveryCheckpoint ==
    [][NewCheckpoint =>
          /\ pos' = pos
          /\ RespawnRuns =>
                 /\ last_checkpoint' = pos
                 /\ next_pos' = pos
                 /\ x_dir' = 1
                 /\ cursor' = 0
                 /\ animation' = None
                 /\ reset'
                 /\ enabled']_vars

\* C32: in a well-nested script, when a movement primitive that no bracket
\* scope encloses fails validation, the cursor is reset to 0, not moved to the
\* slot after the failed one.
C32_TopLevelFailureRestarts ==
    (/\ iq.called
     /\ WellNested(iq.sequence)
     /\ iq.out.anim = None
     /\ iq.sequence[iq.out.index + 1] \in MoveCommands
     /\ ~ValidAtCall(iq.sequence[iq.out.index + 1])
     /\ ~InScope(iq.sequence, iq.out.index)) => iq.cursor = 0

\* a primitive in the middle of a script, outside every scope, failed: the
\* cursor is 0, neither the failed slot nor the one after it
C32_Witness ==
    /\ iq.called
    /\ WellNested(iq.sequence)
    /\ iq.out.anim = None
    /\ iq.sequence[iq.out.index + 1] \in MoveCommands
    /\ ~ValidAtCall(iq.sequence[iq.out.index + 1])
    /\ ~InScope(iq.sequence, iq.out.index)
    /\ iq.out.index >= 1
    /\ iq.out.index + 1 < Len(iq.sequence)
    /\ iq.cursor = 0

\* C33: Enter pressed while a script is running (the editor is disabled) sets
\* the script cursor to 0 and leaves the player's sequence, the avatar's
\* resting and next cells, the facing, an animation in flight and the
\* editor's disabled state as they were.
C33_ResubmitRestartsScript ==
    [][(SubmitRuns /\ ~enabled) =>
          /\ cursor' = 0
          /\ sequence' = sequence
          /\ pos' = pos
          /\ next_pos' = next_pos
          /\ x_dir' = x_dir
          /\ animation' = animation
          /\ finished' = finished
          /\ ~enabled']_vars

\* the first of two different commands was committed from slot 0 by the
\* interpreter in this frame, which left the cursor on 1, and Enter put the
\* cursor back on 0 with the action in flight
C33_Witness ==
    /\ ~enabled
    /\ autoplay
    /\ "update_animation" \in ran
    /\ tick_start = 1
    /\ ~finished
    /\ Len(sequence) = 2
    /\ sequence[1] \in MoveCommands
    /\ sequence[2] \in MoveCommands
    /\ sequence[1] # sequence[2]
    /\ animation = sequence[1]
    /\ next_pos # pos
    /\ cursor = 0

\* the command is in the level's unlocked list, a CloseBracket counting as
\* unlocked exactly when OpenBracket is
CountsAsUnlocked(command) ==
    \E k \in 1..Len(unlocked) :
        unlocked[k] = (IF command = "CloseBracket" THEN "OpenBracket" ELSE command)

\* C34: in every reachable state every command of the player's sequence is
\* unlocked, a CloseBracket counting as unlocked exactly when OpenBracket is;
\* this covers the brackets that auto-balancing adds.
C34_OnlyUnlockedCommands ==
    \A k \in 1..Len(sequence) : CountsAsUnlocked(sequence[k])

\* a script with brackets is running; CloseBracket itself is not in the
\* unlocked list
C34_Witness ==
    /\ ~enabled
    /\ \E k \in 1..Len(sequence) : sequence[k] = "CloseBracket"
    /\ \E k \in 1..Len(unlocked) : unlocked[k] = "OpenBracket"
    /\ \A k \in 1..Len(unlocked) : unlocked[k] # "CloseBracket"

\* C35: level progress is monotone: the unlocked list never loses an element
\* and never holds one twice, it always holds Walk, and command_count never
\* decreases and is at least 1.
C35_ProgressMonotone ==
    /\ [](/\ \A j, k \in 1..Len(unlocked) : unlocked[j] = unlocked[k] => j = k
          /\ \E k \in 1..Len(unlocked) : unlocked[k] = "Walk"
          /\ command_count >= 1)
    /\ [][/\ \A j \in 1..Len(unlocked) : \E k \in 1..Len(unlocked') :
                 unlocked'[k] = unlocked[j]
           /\ command_count' >= command_count]_vars

\* level 2's second checkpoint (no command, count 1) was committed in this
\* frame after the first (Turn, count 2): the list and the budget kept what
\* the first had granted
C35_Witness ==
    /\ lvl = 2
    /\ "respawn" \in ran
    /\ reset
    /\ pos = <<2, 1>>
    /\ last_checkpoint = <<2, 1>>
    /\ unlocked = <<"Walk", "Turn">>
    /\ command_count = 2

\* C36: the spawn cell and the checkpoints being outside the walls, the
\* avatar's resting cell and its committed next cell are never solid.
C36_NeverInsideWall ==
    (/\ ~is_solid(LevelWalls(lvl), LevelSpawn(lvl))
     /\ \A c \in Checkpoints(lvl) : ~is_solid(LevelWalls(lvl), c)) =>
        /\ ~is_solid(LevelWalls(lvl), pos)
        /\ ~is_solid(LevelWalls(lvl), next_pos)

\* the avatar faces the block at (4, 1) from the cell before it, Walk was
\* refused in this frame and the avatar stays where it is
C36_Witness ==
    /\ ~enabled
    /\ "update_animation" \in ran
    /\ pos = <<3, 1>>
    /\ x_dir = 1
    /\ is_solid(LevelWalls(lvl), Add(pos, RIGHT))
    /\ sequence = <<"Walk">>
    /\ animation = None
    /\ next_pos = pos
    /\ autoplay
    /\ ~finished

\* the facing check_valid was called with for the action a step commits: the
\* interpreter negates the facing after it validated a Turn, the manual
\* controls negate it before
ValidatedFacing ==
    IF AnimScript /\ animation' = "Turn" THEN 0 - x_dir' ELSE x_dir'

\* C37: the cell committed to the clock is the landing cell that was
\* validated: for every committed action the next cell is the resting cell
\* plus the final displacement mirrored by the facing check_valid was called
\* with, and the action is valid for that facing, also for a Turn, whose
\* facing is negated between the validation and the next cell.
C37_CommittedCellWasValidated ==
    [][(ChoosesAction /\ animation' # None) =>
          /\ check_valid(LevelWalls(lvl), pos, animation', ValidatedFacing)
          /\ next_pos' = Add(pos, Displacement(animation', ValidatedFacing))]_vars

\* the interpreter committed a Turn in this frame: the facing is -1 now, and
\* the next cell is the resting cell
C37_Witness ==
    /\ ~enabled
    /\ autoplay
    /\ "update_animation" \in ran
    /\ tick_start = 1
    /\ \E k \in 1..Len(sequence) : sequence[k] = "Turn"
    /\ animation = "Turn"
    /\ x_dir = -1
    /\ next_pos = pos
    /\ ~finished

\* C38: every obstacle's resting cell is its spawn cell or the cell one step
\* from the spawn cell in its initial direction, whatever tick-starts, failed
\* ticks, respawns and resets there were.
C38_ObstacleRange ==
    \A i \in DOMAIN obstacles :
        \/ obstacles[i].grid = ObstacleSpawns(lvl)[i].pos
        \/ obstacles[i].grid = <<ObstacleSpawns(lvl)[i].pos[1],
                                 ObstacleSpawns(lvl)[i].pos[2]
                                     + (IF ObstacleSpawns(lvl)[i].going_up THEN 1 ELSE -1)>>

\* obstacle 1 rests one step from its spawn and is on its way back while a
\* Reset is waiting to be read
C38_Witness ==
    /\ obstacles # <<>>
    /\ obstacles[1].grid # ObstacleSpawns(lvl)[1].pos
    /\ obstacles[1].next_grid = ObstacleSpawns(lvl)[1].pos
    /\ reset
    /\ flipped

\* the avatar's resting cell is the resting cell of an obstacle
RestingCollision == \E i \in DOMAIN obstacles : obstacles[i].grid = pos

\* C39: hazards do not affect the validity of a move, and a collision is
\* tested between resting cells only: a primitive at the cursor that the
\* walls allow for either facing is committed wherever the obstacles are; a
\* run of respawn without the R key and without a new checkpoint does nothing
\* unless the avatar's resting cell is an obstacle's resting cell, and it
\* respawns the avatar when it is.
C39_RestingCellsOnly ==
    /\ [][(/\ AnimScript
           /\ sequence[cursor + 1] \in MoveCommands
           /\ \A f \in {-1, 1} :
                  check_valid(LevelWalls(lvl), pos, sequence[cursor + 1], f)) =>
              animation' = sequence[cursor + 1]]_vars
    /\ []((Ready("respawn") /\ ~RestingCollision /\ ~NewCheckpoint) =>
              ENABLED RespawnNone)
    /\ [][(RespawnRuns /\ RestingCollision) =>
              (reset' /\ pos' = last_checkpoint')]_vars

\* a primitive was committed in this frame that takes the avatar to the cell
\* an obstacle rests on, and this frame's run of respawn did nothing
C39_Witness ==
    /\ ran = {"update_tick_timer", "update_animation", "respawn"}
    /\ tick_start = 1
    /\ animation # None
    /\ ~finished
    /\ ~reset
    /\ next_pos # pos
    /\ \E i \in DOMAIN obstacles : obstacles[i].grid = next_pos
    /\ ~RestingCollision

=============================================================================
